---- MODULE Spec2Model ----
(***************************************************************************)
(* Model of src/src/audio-filter.cpp (obs-cleanstream): the real-time      *)
(* producer cleanstream_filter_audio, the background worker whisper_loop / *)
(* process_audio_from_buffer / run_whisper_inference, and the teardown     *)
(* cleanstream_destroy, sharing the three global mutexes.                  *)
(*                                                                         *)
(* A float sample is modelled by the identity of the sample (its channel   *)
(* and its position in the pushed stream), so that every copy, pop and     *)
(* push can be followed sample by sample.  A circlebuf is the sequence of  *)
(* its elements, oldest first; its byte size is the length times the       *)
(* element size.  The host's sample rate is taken at a reduced scale       *)
(* (SampleRates); gf->frames and overlap_frames follow from it as in       *)
(* cleanstream_update.                                                     *)
(***************************************************************************)
EXTENDS Integers, Sequences, FiniteSets, TLC

(* ---------------------------------------------------------------------- *)
(* Program constants                                                       *)
(* ---------------------------------------------------------------------- *)
MAX_PREPROC_CHANNELS == 2
BUFFER_SIZE_MSEC == 1010
OVERLAP_SIZE_MSEC == 340
WHISPER_SAMPLE_RATE == 16000
\* sizeof(float)
SizeofFloat == 4
\* sizeof(struct cleanstream_audio_info): uint32_t frames, uint64_t timestamp
SizeofInfo == 16
\* the controller's step and floor, in msec
OverlapStepMs == 10
OverlapFloorMs == 100
\* word_boundary_simple scans with a window of 50 msec
BoundaryWindowMs == 50
\* the cutoff of the high-pass filter in vad_simple, in Hz
FREQ_THOLD == 100
\* 2 * M_PI, in thousandths
TwoPiMilli == 6283
\* the default of filler_p_threshold, 0.75, in hundredths
DefaultFillerPThreshold == 75
\* std::string::npos, as the position no search returns
npos == -1

\* A float of memory the program never wrote (bmalloc does not clear) or
\* read outside a buffer: its value is arbitrary.
Garbage == -1
\* Stand-in for a size_t far beyond every buffer length: the quotient
\* (2^64 - k) / 1000 that overlap_frames takes once overlap_ms has wrapped
\* below zero, and frames - overlap_frames once that has wrapped too.
HUGE == 1000000000

(* ---------------------------------------------------------------------- *)
(* Bounds of the model and the inputs it enumerates                        *)
(* ---------------------------------------------------------------------- *)
\* calls of cleanstream_filter_audio the host makes
MaxPushes == 3
\* calls of process_audio_from_buffer the worker makes
MaxWindows == 3
\* calls of cleanstream_update after cleanstream_create
MaxUpdates == 1
\* audio_output_get_sample_rate(), at a reduced scale (Hz)
SampleRates == {30}
\* audio_output_get_channels()
ChannelCounts == {2}
\* audio->frames of a packet: one shorter and one at least as long as the
\* new frames a window needs (frames - overlap_frames)
PacketSizes == {8, 22}
\* audio->timestamp of the first packet; later packets count up from it
FirstTimestamps == {0, 1}
\* measured processing time of a window in msec: fast and slow
Durations == {0, 2000}
\* what gf->last_num_frames holds before the first window: cleanstream_create
\* takes gf from bmalloc and nothing assigns the field
UninitLastNumFrames == {0, HUGE}

Free == "free"
NullCtx == "null"
LiveCtx == "ctx"

Channels(n) == 1..n

(* ---------------------------------------------------------------------- *)
(* Helpers                                                                 *)
(* ---------------------------------------------------------------------- *)
Min(a, b) == IF a < b THEN a ELSE b
Max(a, b) == IF a > b THEN a ELSE b

\* The sample at position i (1-based) of the pushed stream of channel c.
SampleOf(c, i) == i * MAX_PREPROC_CHANNELS + (c - 1)

\* audio->data[c] of a packet of n frames that follows `pos` pushed frames
PacketData(c, pos, n) == [k \in 1..n |-> SampleOf(c, pos + k)]

RECURSIVE SumFrames(_)
SumFrames(q) == IF q = << >> THEN 0 ELSE Head(q).frames + SumFrames(Tail(q))

\* circlebuf: data in, data out, what is left
circlebuf_push_back(cb, data) == cb \o data
circlebuf_peek_front(cb, n) == SubSeq(cb, 1, n)
circlebuf_drop_front(cb, n) == SubSeq(cb, n + 1, Len(cb))
\* circlebuf.size in bytes, of a buffer of floats and of a buffer of infos
FloatBufSize(cb) == Len(cb) * SizeofFloat
InfoBufSize(cb) == Len(cb) * SizeofInfo

\* gf->frames = (size_t)(sample_rate / (1000.0f / BUFFER_SIZE_MSEC)); the
\* float quotient truncates to this integer for every rate in SampleRates
FramesOf(sr) == (sr * BUFFER_SIZE_MSEC) \div 1000
\* gf->overlap_frames = (size_t)(sample_rate / (1000.0f / overlap_ms))
InitialOverlapFrames(sr) == (sr * OVERLAP_SIZE_MSEC) \div 1000

(* size_t arithmetic.  overlap_ms is a 64-bit unsigned; a value of 2^63 or  *)
(* more is kept as the negative number it is in two's complement, so that  *)
(* adding and subtracting stay exact.                                      *)
\* gf->overlap_ms * gf->sample_rate / 1000
OverlapFramesOf(ms, sr) == IF ms < 0 THEN HUGE ELSE (ms * sr) \div 1000
\* gf->frames - gf->overlap_frames
NeededNewFrames(fr, ovf) == IF ovf > fr THEN HUGE ELSE fr - ovf
\* unsigned a >= b for values kept as above
GeU(a, b) == IF a < 0 THEN (b >= 0 \/ a >= b) ELSE (b >= 0 /\ a >= b)
\* std::max and std::min on uint64_t
MaxU(a, b) == IF GeU(a, b) THEN a ELSE b
MinU(a, b) == IF GeU(a, b) THEN b ELSE a


(* ---------------------------------------------------------------------- *)
(* State                                                                   *)
(* ---------------------------------------------------------------------- *)
VARIABLES
  \* struct cleanstream_data
  channels, sample_rate, frames, overlap_frames, overlap_ms, last_num_frames,
  copy_buffers, info_buffer, info_out_buffer, input_buffers, output_buffers,
  whisper_context, output_audio,
  \* the engine behind the pointer: "live" until whisper_free
  engine,
  \* the three global mutexes: Free or the thread that holds it
  whisper_buf_mutex, whisper_outbuf_mutex, whisper_ctx_mutex,
  \* whisper_loop / process_audio_from_buffer: position and locals
  worker_pc, segment_size, input_buf_size, num_new_frames_from_infos,
  start_timestamp, skipped_inference, filler_segment,
  \* what vad_simple returned for the window, and word_boundary (0 until
  \* word_boundary_simple is called)
  vad, word_boundary,
  \* the measured processing time of the window in msec (0 until measured)
  duration,
  \* cleanstream_filter_audio: position, the caller's packet, what it returned
  producer_pc, audio, ret,
  \* cleanstream_destroy: position
  destroy_pc,
  \* the process died (a fault in the worker takes every thread with it)
  crashed,
  \* the host: whether the source is silent, the first timestamp, the calls
  \* made and the frames delivered so far
  silent, first_ts, calls, in_pos,
  \* history: windows assembled, frames pushed into the input queue, what the
  \* last drain saw and took, and everything published so far
  windows, pushed_frames, win, pub_infos, pub_samples,
  \* run_whisper_inference on a successful whisper_full: the text and the
  \* token probabilities of segment 0, gf->filler_p_threshold, and what the
  \* function returned ("none" until it has)
  text, token_p, filler_p_threshold, returned,
  \* vad_simple on a window and on the same window scaled: the window and the
  \* scale, the two buffers handed to vad_simple, its two thresholds, and what
  \* the two calls returned ("none" until they have)
  window, scale, pcmf32, pcmf32_scaled, vad_thold, freq_thold, vad_ret,
  vad_ret_scaled,
  \* cleanstream_update called on the running filter: where the call is and
  \* how many calls have been made
  update_pc, updates

gf_vars == <<channels, sample_rate, frames, overlap_frames, overlap_ms,
             last_num_frames, copy_buffers, whisper_context, engine>>
in_vars == <<info_buffer, input_buffers>>
out_vars == <<info_out_buffer, output_buffers, output_audio>>
mutex_vars == <<whisper_buf_mutex, whisper_outbuf_mutex, whisper_ctx_mutex>>
worker_vars == <<worker_pc, segment_size, input_buf_size,
                 num_new_frames_from_infos, start_timestamp,
                 skipped_inference, filler_segment, vad, word_boundary, duration>>
producer_vars == <<producer_pc, audio, ret>>
host_vars == <<silent, first_ts, calls, in_pos>>
hist_vars == <<windows, pushed_frames, win, pub_infos, pub_samples>>
cls_vars == <<text, token_p, filler_p_threshold, returned>>
vad_vars == <<window, scale, pcmf32, pcmf32_scaled, vad_thold, freq_thold,
              vad_ret, vad_ret_scaled>>
upd_vars == <<update_pc, updates>>
fn_vars == <<cls_vars, vad_vars, upd_vars>>

vars == <<gf_vars, in_vars, out_vars, mutex_vars, worker_vars, producer_vars,
          destroy_pc, crashed, host_vars, hist_vars, fn_vars>>

NoAudio == [frames |-> 0, timestamp |-> 0, data |-> << >>]
NoWin == [first_ts |-> -1, prev_last |-> 0, prev_copy |-> << >>,
          overlap |-> 0, drained |-> << >>]

(* The state after cleanstream_create: circlebuf_init on every queue,      *)
(* whisper_context loaded, cleanstream_update run once, the worker thread  *)
(* started.  last_num_frames and the copy buffers hold what bmalloc left.  *)
CreateState ==
  /\ channels \in ChannelCounts
  /\ sample_rate \in SampleRates
  /\ frames = FramesOf(sample_rate)
  /\ overlap_ms = OVERLAP_SIZE_MSEC
  /\ overlap_frames = InitialOverlapFrames(sample_rate)
  /\ last_num_frames \in UninitLastNumFrames
  /\ copy_buffers = [c \in Channels(channels) |-> [i \in 1..frames |-> Garbage]]
  /\ info_buffer = << >>
  /\ info_out_buffer = << >>
  /\ input_buffers = [c \in Channels(channels) |-> << >>]
  /\ output_buffers = [c \in Channels(channels) |-> << >>]
  /\ whisper_context = LiveCtx
  /\ engine = "live"
  /\ output_audio = NoAudio
  /\ whisper_buf_mutex = Free
  /\ whisper_outbuf_mutex = Free
  /\ whisper_ctx_mutex = Free
  /\ worker_pc = "loop_top"
  /\ segment_size = frames * SizeofFloat
  /\ input_buf_size = 0
  /\ num_new_frames_from_infos = 0
  /\ start_timestamp = 0
  /\ skipped_inference = FALSE
  /\ vad = FALSE
  /\ word_boundary = 0
  /\ duration = 0
  /\ filler_segment = FALSE
  /\ producer_pc = "idle"
  /\ audio = NoAudio
  /\ ret = "none"
  /\ destroy_pc = "idle"
  /\ crashed = FALSE
  /\ silent \in BOOLEAN
  /\ first_ts \in FirstTimestamps
  /\ calls = 0
  /\ in_pos = 0
  /\ windows = 0
  /\ pushed_frames = 0
  /\ win = NoWin
  /\ pub_infos = << >>
  /\ pub_samples = [c \in Channels(channels) |-> << >>]

\* no inference has produced a segment yet; the threshold is the default of
\* cleanstream_defaults, in hundredths
NoSegment ==
  /\ text = << >>
  /\ token_p = << >>
  /\ filler_p_threshold = DefaultFillerPThreshold
  /\ returned = "none"

\* vad_simple has not been handed a window
NoWindow ==
  /\ window = << >>
  /\ scale = 0
  /\ pcmf32 = << >>
  /\ pcmf32_scaled = << >>
  /\ vad_thold = 0
  /\ freq_thold = FREQ_THOLD
  /\ vad_ret = "none"
  /\ vad_ret_scaled = "none"

\* cleanstream_update has not been called since cleanstream_create
NoUpdate ==
  /\ update_pc = "idle"
  /\ updates = 0

Init == CreateState /\ NoSegment /\ NoWindow /\ NoUpdate

(* ---------------------------------------------------------------------- *)
(* cleanstream_filter_audio: the real-time producer                        *)
(* ---------------------------------------------------------------------- *)
\* a filter that goes on to the queues whatever whisper_context is
PassesThrough_Never(ctx) == FALSE

\* if (gf->whisper_context == nullptr) return audio
PassesThrough(ctx) == ctx = NullCtx

\* The host calls the filter with a packet of n frames.  A null
\* whisper_context (read without a lock) returns the packet as it came.
FilterAudioCall(n) ==
  /\ ~crashed
  /\ producer_pc = "idle"
  /\ calls < MaxPushes
  /\ destroy_pc = "idle"
  /\ calls' = calls + 1
  /\ in_pos' = in_pos + n
  /\ IF PassesThrough(whisper_context)
       THEN /\ ret' = "audio"
            /\ UNCHANGED <<producer_pc, audio>>
       ELSE /\ producer_pc' = "push_lock"
            /\ audio' = [frames |-> n, timestamp |-> first_ts + calls,
                         data |-> [c \in Channels(channels) |->
                                     PacketData(c, in_pos, n)]]
            /\ ret' = "none"
  /\ UNCHANGED <<fn_vars, gf_vars, in_vars, out_vars, mutex_vars, worker_vars,
                 destroy_pc, crashed, silent, first_ts, hist_vars>>

\* std::lock_guard lock(whisper_buf_mutex)
FilterAudioLockBuf ==
  /\ ~crashed
  /\ producer_pc = "push_lock"
  /\ whisper_buf_mutex = Free
  /\ whisper_buf_mutex' = "producer"
  /\ producer_pc' = "push"
  /\ UNCHANGED <<fn_vars, gf_vars, in_vars, out_vars, whisper_outbuf_mutex,
                 whisper_ctx_mutex, worker_vars, audio, ret, destroy_pc,
                 crashed, host_vars, hist_vars>>

\* the mutex after the scope of the push ends
MutexAfterPush == Free

\* push the samples of every channel and one packet info, then unlock
FilterAudioPush ==
  /\ ~crashed
  /\ producer_pc = "push"
  /\ input_buffers' = [c \in Channels(channels) |->
                         circlebuf_push_back(input_buffers[c], audio.data[c])]
  /\ info_buffer' = circlebuf_push_back(info_buffer,
                       <<[frames |-> audio.frames, timestamp |-> audio.timestamp]>>)
  /\ pushed_frames' = pushed_frames + audio.frames
  /\ whisper_buf_mutex' = MutexAfterPush
  /\ producer_pc' = "pull_lock"
  /\ UNCHANGED <<fn_vars, gf_vars, out_vars, whisper_outbuf_mutex, whisper_ctx_mutex,
                 worker_vars, audio, ret, destroy_pc, crashed, host_vars,
                 windows, win, pub_infos, pub_samples>>

\* std::lock_guard lock(whisper_outbuf_mutex)
FilterAudioLockOutbuf ==
  /\ ~crashed
  /\ producer_pc = "pull_lock"
  /\ whisper_outbuf_mutex = Free
  /\ whisper_outbuf_mutex' = "producer"
  /\ producer_pc' = "pull"
  /\ UNCHANGED <<fn_vars, gf_vars, in_vars, out_vars, whisper_buf_mutex,
                 whisper_ctx_mutex, worker_vars, audio, ret, destroy_pc,
                 crashed, host_vars, hist_vars>>

\* circlebuf_pop_front of n floats from a queue that holds fewer
PullFaults(bufs, n) == \E c \in DOMAIN bufs : n > Len(bufs[c])

\* nothing to output: return NULL; else pop the oldest output info and that
\* many frames of every channel into output_audio and return it
FilterAudioPull ==
  /\ ~crashed
  /\ producer_pc = "pull"
  /\ IF InfoBufSize(info_out_buffer) = 0
       THEN /\ ret' = "null"
            /\ crashed' = FALSE
            /\ UNCHANGED out_vars
       ELSE IF PullFaults(output_buffers, Head(info_out_buffer).frames)
       THEN /\ crashed' = TRUE
            /\ UNCHANGED <<out_vars, ret>>
       ELSE LET info_out == Head(info_out_buffer) IN
            /\ crashed' = FALSE
            /\ info_out_buffer' = Tail(info_out_buffer)
            /\ output_audio' =
                 [frames |-> info_out.frames, timestamp |-> info_out.timestamp,
                  data |-> [c \in Channels(channels) |->
                    circlebuf_peek_front(output_buffers[c], info_out.frames)]]
            /\ output_buffers' = [c \in Channels(channels) |->
                    circlebuf_drop_front(output_buffers[c], info_out.frames)]
            /\ ret' = "output"
  /\ whisper_outbuf_mutex' = Free
  /\ producer_pc' = "idle"
  /\ audio' = NoAudio
  /\ UNCHANGED <<fn_vars, gf_vars, in_vars, whisper_buf_mutex, whisper_ctx_mutex,
                 worker_vars, destroy_pc, host_vars, hist_vars>>


(* ---------------------------------------------------------------------- *)
(* whisper_loop: the background worker                                     *)
(* ---------------------------------------------------------------------- *)
\* top of the thread main loop: std::lock_guard lock(whisper_ctx_mutex)
WhisperLoopLockCtx ==
  /\ ~crashed
  /\ worker_pc = "loop_top"
  /\ whisper_ctx_mutex = Free
  /\ whisper_ctx_mutex' = "worker"
  /\ worker_pc' = "check_ctx"
  /\ UNCHANGED <<fn_vars, gf_vars, in_vars, out_vars, whisper_buf_mutex,
                 whisper_outbuf_mutex, segment_size, input_buf_size,
                 num_new_frames_from_infos, start_timestamp,
                 skipped_inference, vad, word_boundary, duration, filler_segment,
                 producer_vars, destroy_pc,
                 crashed, host_vars, hist_vars>>

\* where the loop goes when it finds the context null
LoopOnNullContext == "exited"

\* a null context ends the thread; otherwise on to the inner loop
WhisperLoopCheckCtx ==
  /\ ~crashed
  /\ worker_pc = "check_ctx"
  /\ worker_pc' = IF whisper_context = NullCtx THEN LoopOnNullContext
                                               ELSE "poll_lock"
  /\ whisper_ctx_mutex' = Free
  /\ UNCHANGED <<fn_vars, gf_vars, in_vars, out_vars, whisper_buf_mutex,
                 whisper_outbuf_mutex, segment_size, input_buf_size,
                 num_new_frames_from_infos, start_timestamp,
                 skipped_inference, vad, word_boundary, duration, filler_segment,
                 producer_vars, destroy_pc,
                 crashed, host_vars, hist_vars>>

\* inner loop: std::lock_guard lock(whisper_buf_mutex)
WhisperLoopLockBuf ==
  /\ ~crashed
  /\ worker_pc = "poll_lock"
  /\ whisper_buf_mutex = Free
  /\ whisper_buf_mutex' = "worker"
  /\ worker_pc' = "poll"
  /\ UNCHANGED <<fn_vars, gf_vars, in_vars, out_vars, whisper_outbuf_mutex,
                 whisper_ctx_mutex, segment_size, input_buf_size,
                 num_new_frames_from_infos, start_timestamp,
                 skipped_inference, vad, word_boundary, duration, filler_segment,
                 producer_vars, destroy_pc,
                 crashed, host_vars, hist_vars>>

\* read input_buffers[0].size, unlock; enough for a segment: process, else
\* leave the inner loop
WhisperLoopPoll ==
  /\ ~crashed
  /\ worker_pc = "poll"
  /\ input_buf_size' = FloatBufSize(input_buffers[1])
  /\ whisper_buf_mutex' = Free
  /\ worker_pc' = IF input_buf_size' >= segment_size THEN "drain_lock"
                                                     ELSE "sleep"
  /\ UNCHANGED <<fn_vars, gf_vars, in_vars, out_vars, whisper_outbuf_mutex,
                 whisper_ctx_mutex, segment_size, num_new_frames_from_infos,
                 start_timestamp, skipped_inference, vad, word_boundary, duration,
                 filler_segment,
                 producer_vars, destroy_pc, crashed, host_vars, hist_vars>>

\* std::this_thread::sleep_for(10 ms), then the top of the main loop
WhisperLoopSleep ==
  /\ ~crashed
  /\ worker_pc = "sleep"
  /\ worker_pc' = "loop_top"
  /\ UNCHANGED <<fn_vars, gf_vars, in_vars, out_vars, mutex_vars, segment_size,
                 input_buf_size, num_new_frames_from_infos, start_timestamp,
                 skipped_inference, vad, word_boundary, duration, filler_segment,
                 producer_vars, destroy_pc,
                 crashed, host_vars, hist_vars>>

(* ---------------------------------------------------------------------- *)
(* process_audio_from_buffer: the drain                                    *)
(* ---------------------------------------------------------------------- *)
\* the info that made the count reach the need goes back into the queue
ReturnInfo(rest, info) == circlebuf_push_back(rest, <<info>>)

\* start_timestamp after popping an info with timestamp t
MarkTimestamp(ts, t) == IF ts = 0 THEN t ELSE ts

\* a loop that stops at the first info whatever the count is
ReachesNeed_Always(num1, needed) == TRUE

\* num_new_frames_from_infos >= (gf->frames - gf->overlap_frames)
ReachesNeed(num1, needed) == num1 >= needed

\* the loop over info_buffer: pop, count, mark the timestamp, stop when the
\* count reaches the need (and put that last info back)
RECURSIVE PopInfos(_, _, _, _)
PopInfos(q, num, ts, needed) ==
  IF InfoBufSize(q) < SizeofInfo
    THEN [q |-> q, num |-> num, ts |-> ts]
    ELSE LET info_from_buf == Head(q)
             num1 == num + info_from_buf.frames
             ts1 == MarkTimestamp(ts, info_from_buf.timestamp)
         IN IF ReachesNeed(num1, needed)
              THEN [q |-> ReturnInfo(Tail(q), info_from_buf),
                    num |-> num1 - info_from_buf.frames, ts |-> ts1]
              ELSE PopInfos(Tail(q), num1, ts1, needed)

(* memcpy(buf, buf + off, n floats) inside one buffer.  With 0 < off < n   *)
(* source and destination overlap, which memcpy leaves undefined: a copy   *)
(* in ascending order gives what memmove gives, a copy in descending order *)
(* reads floats it has already overwritten.                                *)
CopyAscending(buf, off, n) ==
  [i \in 1..Len(buf) |-> IF i <= n THEN buf[off + i] ELSE buf[i]]
CopyDescending(buf, off, n) ==
  LET D[i \in 1..n] == IF off + i <= n THEN D[off + i] ELSE buf[off + i]
  IN [i \in 1..Len(buf) |-> IF i <= n THEN D[i] ELSE buf[i]]

UBOutcomes == {"mild", "harsh"}

\* The overlap copy of one channel: memcpy(copy, copy + last - overlap,
\* overlap floats).  A source outside the buffer reads arbitrary floats
\* (outcome "mild"; "harsh" is the fault, see DrainFaults).
CopyOverlap(buf, last, ovf, o) ==
  LET off == last - ovf IN
  IF ovf = 0 \/ off = 0 THEN buf
  ELSE IF off < 0 \/ off + ovf > Len(buf)
    THEN [i \in 1..Len(buf) |-> IF i <= ovf THEN Garbage ELSE buf[i]]
  ELSE IF off < ovf /\ o = "harsh" THEN CopyDescending(buf, off, ovf)
  ELSE CopyAscending(buf, off, ovf)

\* write `data` into buf from position at (0-based)
WriteAt(buf, at, data) ==
  [i \in 1..Len(buf) |->
     IF i > at /\ i <= at + Len(data) THEN data[i - at] ELSE buf[i]]

\* how many frames the drain pops from each input buffer
FramesToPop(last, ovf, num) == IF last > 0 THEN num ELSE num + ovf

\* The copy buffer of one channel after the drain: not the first window:
\* the overlap from the end of the last window, then the new frames; the
\* first window: the new frames and the overlap, all from the input buffer.
AssembleWindow(buf, input, last, ovf, num, o) ==
  IF last > 0
    THEN WriteAt(CopyOverlap(buf, last, ovf, o), ovf,
                 circlebuf_peek_front(input, num))
    ELSE WriteAt(buf, 0, circlebuf_peek_front(input, num + ovf))

\* The drain faults (the process dies) when a copy runs past the copy buffer
\* or a pop takes more than the input buffer holds, and, under outcome
\* "harsh", when the overlap is read from outside the copy buffer.
DrainFaults(cap, inlen, last, ovf, num, o) ==
  \/ FramesToPop(last, ovf, num) > inlen
  \/ ovf + num > cap
  \/ /\ last > 0
     /\ ovf > 0
     /\ (last - ovf < 0 \/ last > cap)
     /\ o = "harsh"

\* a drain whose scope does not release whisper_buf_mutex
MutexAfterDrain_Held == "worker"

\* the mutex after the scope of the drain ends
MutexAfterDrain == Free

\* std::lock_guard lock(whisper_buf_mutex) at the head of the drain
ProcessLockBuf ==
  /\ ~crashed
  /\ worker_pc = "drain_lock"
  /\ windows < MaxWindows
  /\ whisper_buf_mutex = Free
  /\ whisper_buf_mutex' = "worker"
  /\ worker_pc' = "drain"
  /\ UNCHANGED <<fn_vars, gf_vars, in_vars, out_vars, whisper_outbuf_mutex,
                 whisper_ctx_mutex, segment_size, input_buf_size,
                 num_new_frames_from_infos, start_timestamp,
                 skipped_inference, vad, word_boundary, duration, filler_segment,
                 producer_vars, destroy_pc,
                 crashed, host_vars, hist_vars>>

\* pop the infos, assemble the window of every channel, set last_num_frames
ProcessDrain ==
  /\ ~crashed
  /\ worker_pc = "drain"
  /\ \E o \in UBOutcomes :
       LET r == PopInfos(info_buffer, 0, 0,
                         NeededNewFrames(frames, overlap_frames))
           npop == FramesToPop(last_num_frames, overlap_frames, r.num)
       IN IF DrainFaults(frames, Len(input_buffers[1]), last_num_frames,
                         overlap_frames, r.num, o)
            THEN /\ crashed' = TRUE
                 /\ UNCHANGED <<gf_vars, in_vars, whisper_buf_mutex,
                                worker_vars, hist_vars>>
            ELSE /\ crashed' = FALSE
                 /\ info_buffer' = r.q
                 /\ num_new_frames_from_infos' = r.num
                 /\ start_timestamp' = r.ts
                 /\ copy_buffers' = [c \in Channels(channels) |->
                      AssembleWindow(copy_buffers[c], input_buffers[c],
                                     last_num_frames, overlap_frames, r.num, o)]
                 /\ input_buffers' = [c \in Channels(channels) |->
                      circlebuf_drop_front(input_buffers[c], npop)]
                 /\ last_num_frames' = r.num + overlap_frames
                 /\ whisper_buf_mutex' = MutexAfterDrain
                 /\ worker_pc' = "gate"
                 /\ windows' = windows + 1
                 /\ win' = [first_ts |-> IF info_buffer = << >> THEN -1
                                         ELSE Head(info_buffer).timestamp,
                            prev_last |-> last_num_frames,
                            prev_copy |-> copy_buffers,
                            overlap |-> overlap_frames,
                            drained |-> [c \in Channels(channels) |->
                               circlebuf_peek_front(input_buffers[c], npop)]]
                 /\ skipped_inference' = FALSE
                 /\ filler_segment' = FALSE
                 /\ vad' = FALSE
                 /\ word_boundary' = 0
                 /\ duration' = 0
                 /\ UNCHANGED <<channels, sample_rate, frames, overlap_frames,
                                overlap_ms, whisper_context, engine,
                                segment_size, input_buf_size, pushed_frames,
                                pub_infos, pub_samples>>
  /\ UNCHANGED <<fn_vars, out_vars, whisper_outbuf_mutex, whisper_ctx_mutex,
                 producer_vars, destroy_pc, host_vars>>


(* ---------------------------------------------------------------------- *)
(* process_audio_from_buffer: resample, signal gate, inference             *)
(* ---------------------------------------------------------------------- *)
\* the window holds a float the program never wrote
HasGarbage(bufs, last) ==
  \E c \in DOMAIN bufs : \E i \in 1..Min(last, Len(bufs[c])) : bufs[c][i] = Garbage

\* gf->copy_buffers[0] has been freed and not allocated again
CopyFreed(bufs) == \E c \in DOMAIN bufs : bufs[c] = << >>

\* frames the resampler hands to the gate, at WHISPER_SAMPLE_RATE
ResampledFrames(last, sr) == (last * WHISPER_SAMPLE_RATE) \div sr
\* n_samples_window of word_boundary_simple
BoundarySamples == (WHISPER_SAMPLE_RATE * BoundaryWindowMs) \div 1000

\* what word_boundary_simple returns: n_samples_window or 0
BoundaryResults == {0, BoundarySamples}

\* a gate that goes to the engine on speech alone
InvokesInference_NoBoundary(v, wb) == v

\* the gate: run_whisper_inference is called for speech with a boundary
InvokesInference(v, wb) == v /\ wb > 0

(* vad_simple and word_boundary_simple decide on the amplitudes of the     *)
(* window, which the model does not follow: every verdict is possible,     *)
(* except that a window of a silent source is never speech.  A window      *)
(* shorter than n_samples_window makes word_boundary_simple read outside   *)
(* it: a fault ("harsh") or an arbitrary verdict.  word_boundary_simple is *)
(* called for speech only.  The resampler reads gf->copy_buffers with no   *)
(* mutex held: a buffer freed by then is a fault or an arbitrary verdict.  *)
ProcessGate ==
  /\ ~crashed
  /\ worker_pc = "gate"
  /\ \E v \in BOOLEAN, wb \in BoundaryResults, o \in UBOutcomes :
       /\ (/\ silent
           /\ ~HasGarbage(copy_buffers, last_num_frames)
           /\ ~CopyFreed(copy_buffers)) => ~v
       /\ ~v => wb = 0
       /\ IF \/ /\ v
                /\ ResampledFrames(last_num_frames, sample_rate) < BoundarySamples
                /\ o = "harsh"
             \/ CopyFreed(copy_buffers) /\ o = "harsh"
            THEN /\ crashed' = TRUE
                 /\ UNCHANGED <<worker_pc, skipped_inference, vad,
                                word_boundary>>
            ELSE /\ crashed' = FALSE
                 /\ vad' = v
                 /\ word_boundary' = wb
                 /\ skipped_inference' = ~v
                 /\ worker_pc' = IF InvokesInference(v, wb)
                                   THEN "infer_lock" ELSE "publish_lock"
  /\ UNCHANGED <<fn_vars, gf_vars, in_vars, out_vars, mutex_vars, segment_size,
                 input_buf_size, num_new_frames_from_infos, start_timestamp,
                 filler_segment, duration, producer_vars, destroy_pc,
                 host_vars, hist_vars>>

\* run_whisper_inference: std::lock_guard lock(whisper_ctx_mutex)
InferenceLockCtx ==
  /\ ~crashed
  /\ worker_pc = "infer_lock"
  /\ whisper_ctx_mutex = Free
  /\ whisper_ctx_mutex' = "worker"
  /\ worker_pc' = "infer_check"
  /\ UNCHANGED <<fn_vars, gf_vars, in_vars, out_vars, whisper_buf_mutex,
                 whisper_outbuf_mutex, segment_size, input_buf_size,
                 num_new_frames_from_infos, start_timestamp,
                 skipped_inference, vad, word_boundary, duration, filler_segment,
                 producer_vars, destroy_pc,
                 crashed, host_vars, hist_vars>>

\* a run_whisper_inference that goes on to the engine without the null test
ContextUsable_NoCheck(ctx) == TRUE

\* the test that lets run_whisper_inference go on to the engine
ContextUsable(ctx) == ctx # NullCtx

\* a null context returns false; otherwise call whisper_full
InferenceCheckCtx ==
  /\ ~crashed
  /\ worker_pc = "infer_check"
  /\ IF ContextUsable(whisper_context)
       THEN /\ worker_pc' = "whisper_full"
            /\ UNCHANGED whisper_ctx_mutex
       ELSE /\ worker_pc' = "publish_lock"
            /\ whisper_ctx_mutex' = Free
  /\ UNCHANGED <<fn_vars, gf_vars, in_vars, out_vars, whisper_buf_mutex,
                 whisper_outbuf_mutex, segment_size, input_buf_size,
                 num_new_frames_from_infos, start_timestamp,
                 skipped_inference, vad, word_boundary, duration, filler_segment,
                 producer_vars, destroy_pc,
                 crashed, host_vars, hist_vars>>

WhisperFullResults == {"ok", "error", "exception"}

\* a catch block that frees the engine and keeps the pointer
ContextAfterFault_Kept == LiveCtx

\* the catch block: whisper_free(gf->whisper_context), then the pointer
ContextAfterFault == NullCtx

\* whisper_full returns 0, returns an error, or throws: the handler frees
\* the context and nulls the pointer, and the result stays -1
InferenceWhisperFull ==
  /\ ~crashed
  /\ worker_pc = "whisper_full"
  /\ \E result \in WhisperFullResults :
       /\ IF result = "exception"
            THEN /\ engine' = "freed"
                 /\ whisper_context' = ContextAfterFault
            ELSE UNCHANGED <<engine, whisper_context>>
       /\ IF result = "ok"
            THEN /\ worker_pc' = "accessors"
                 /\ UNCHANGED whisper_ctx_mutex
            ELSE /\ worker_pc' = "publish_lock"
                 /\ whisper_ctx_mutex' = Free
  /\ UNCHANGED <<fn_vars, channels, sample_rate, frames, overlap_frames, overlap_ms,
                 last_num_frames, copy_buffers, in_vars, out_vars,
                 whisper_buf_mutex, whisper_outbuf_mutex, segment_size,
                 input_buf_size, num_new_frames_from_infos, start_timestamp,
                 skipped_inference, vad, word_boundary, duration, filler_segment,
                 producer_vars, destroy_pc,
                 crashed, host_vars, hist_vars>>

\* whisper_full_get_segment_text, _t0, _t1, _n_tokens, _get_token_p on the
\* context, then the classification of the transcript; the lock ends with
\* the function
InferenceAccessors ==
  /\ ~crashed
  /\ worker_pc = "accessors"
  /\ \E filler \in BOOLEAN : filler_segment' = filler
  /\ whisper_ctx_mutex' = Free
  /\ worker_pc' = "publish_lock"
  /\ UNCHANGED <<fn_vars, gf_vars, in_vars, out_vars, whisper_buf_mutex,
                 whisper_outbuf_mutex, segment_size, input_buf_size,
                 num_new_frames_from_infos, start_timestamp,
                 skipped_inference, vad, word_boundary, duration, producer_vars,
                 destroy_pc, crashed,
                 host_vars, hist_vars>>

(* ---------------------------------------------------------------------- *)
(* process_audio_from_buffer: publish and the overlap controller           *)
(* ---------------------------------------------------------------------- *)
\* std::lock_guard lock(whisper_outbuf_mutex)
ProcessLockOutbuf ==
  /\ ~crashed
  /\ worker_pc = "publish_lock"
  /\ whisper_outbuf_mutex = Free
  /\ whisper_outbuf_mutex' = "worker"
  /\ worker_pc' = "publish"
  /\ UNCHANGED <<fn_vars, gf_vars, in_vars, out_vars, whisper_buf_mutex,
                 whisper_ctx_mutex, segment_size, input_buf_size,
                 num_new_frames_from_infos, start_timestamp,
                 skipped_inference, vad, word_boundary, duration, filler_segment,
                 producer_vars, destroy_pc,
                 crashed, host_vars, hist_vars>>

\* a publish that pushes the whole copy buffer, overlap and unused tail too
PublishedSamples_Whole(buf, num) == buf

\* what is pushed to the output buffer of a channel: num floats from the
\* start of its copy buffer
PublishedSamples(buf, num) == SubSeq(buf, 1, num)

\* the output info of the window
OutputInfo(num, ts) == [frames |-> num, timestamp |-> ts]

\* the mutex after the scope of the publish ends
MutexAfterPublish == Free

\* push the output info and the samples of every channel, unlock; then the
\* end of the timer: duration is the measured time of the window
ProcessPublish ==
  /\ ~crashed
  /\ worker_pc = "publish"
  /\ LET info_out == OutputInfo(num_new_frames_from_infos, start_timestamp)
         pub == [c \in Channels(channels) |->
                   PublishedSamples(copy_buffers[c], num_new_frames_from_infos)]
     IN /\ info_out_buffer' = circlebuf_push_back(info_out_buffer, <<info_out>>)
        /\ output_buffers' = [c \in Channels(channels) |->
                                circlebuf_push_back(output_buffers[c], pub[c])]
        /\ pub_infos' = Append(pub_infos, info_out)
        /\ pub_samples' = [c \in Channels(channels) |-> pub_samples[c] \o pub[c]]
  /\ whisper_outbuf_mutex' = MutexAfterPublish
  /\ \E d \in Durations : duration' = d
  /\ worker_pc' = "controller"
  /\ UNCHANGED <<fn_vars, gf_vars, in_vars, output_audio, whisper_buf_mutex,
                 whisper_ctx_mutex, segment_size, input_buf_size,
                 num_new_frames_from_infos, start_timestamp,
                 skipped_inference, vad, word_boundary, filler_segment,
                 producer_vars, destroy_pc, crashed, host_vars, windows,
                 pushed_frames, win>>

\* new_frames_from_infos_ms = num_new_frames_from_infos * 1000 / sample_rate
NewFramesMs(num, sr) == (num * 1000) \div sr
\* (uint64_t)(new_frames_from_infos_ms * 0.75f): exact in float for these values
OverlapCapMs(new_ms) == (new_ms * 3) \div 4
\* std::max(gf->overlap_ms - 10, (uint64_t)100)
DecreasedOverlap(ms) == MaxU(ms - OverlapStepMs, OverlapFloorMs)
\* std::min(gf->overlap_ms + 10, (uint64_t)(new_frames_from_infos_ms * 0.75f))
IncreasedOverlap(ms, new_ms) == MinU(ms + OverlapStepMs, OverlapCapMs(new_ms))
\* overlap_ms after a window that took d msec
NextOverlapMs(ms, d, new_ms, skipped) ==
  IF d > new_ms THEN DecreasedOverlap(ms)
  ELSE IF ~skipped THEN IncreasedOverlap(ms, new_ms)
  ELSE ms

\* the end of process_audio_from_buffer: its locals end with it; back to the
\* inner loop's test
ProcessController ==
  /\ ~crashed
  /\ worker_pc = "controller"
  /\ LET new_ms == NewFramesMs(num_new_frames_from_infos, sample_rate)
         ms == NextOverlapMs(overlap_ms, duration, new_ms, skipped_inference)
     IN /\ overlap_ms' = ms
        /\ overlap_frames' =
             IF duration > new_ms \/ ~skipped_inference
               THEN OverlapFramesOf(ms, sample_rate)
               ELSE overlap_frames
  /\ worker_pc' = "poll_lock"
  /\ num_new_frames_from_infos' = 0
  /\ start_timestamp' = 0
  /\ skipped_inference' = FALSE
  /\ filler_segment' = FALSE
  /\ vad' = FALSE
  /\ word_boundary' = 0
  /\ duration' = 0
  /\ win' = NoWin
  /\ UNCHANGED <<fn_vars, channels, sample_rate, frames, last_num_frames, copy_buffers,
                 whisper_context, engine, in_vars, out_vars, mutex_vars,
                 segment_size, input_buf_size, producer_vars, destroy_pc,
                 crashed, host_vars, windows, pushed_frames, pub_infos,
                 pub_samples>>

(* ---------------------------------------------------------------------- *)
(* cleanstream_destroy                                                     *)
(* ---------------------------------------------------------------------- *)
\* the host destroys the filter
DestroyCall ==
  /\ ~crashed
  /\ destroy_pc = "idle"
  /\ destroy_pc' = "lock_ctx"
  /\ UNCHANGED <<fn_vars, gf_vars, in_vars, out_vars, mutex_vars, worker_vars,
                 producer_vars, crashed, host_vars, hist_vars>>

\* std::lock_guard lock(whisper_ctx_mutex)
DestroyLockCtx ==
  /\ ~crashed
  /\ destroy_pc = "lock_ctx"
  /\ whisper_ctx_mutex = Free
  /\ whisper_ctx_mutex' = "destroy"
  /\ destroy_pc' = "free_ctx"
  /\ UNCHANGED <<fn_vars, gf_vars, in_vars, out_vars, whisper_buf_mutex,
                 whisper_outbuf_mutex, worker_vars, producer_vars, crashed,
                 host_vars, hist_vars>>

\* whisper_free and null the pointer, if it is not null already; unlock
DestroyFreeCtx ==
  /\ ~crashed
  /\ destroy_pc = "free_ctx"
  /\ IF whisper_context # NullCtx
       THEN /\ engine' = "freed"
            /\ whisper_context' = NullCtx
       ELSE UNCHANGED <<engine, whisper_context>>
  /\ whisper_ctx_mutex' = Free
  /\ destroy_pc' = "join"
  /\ UNCHANGED <<fn_vars, channels, sample_rate, frames, overlap_frames, overlap_ms,
                 last_num_frames, copy_buffers, in_vars, out_vars,
                 whisper_buf_mutex, whisper_outbuf_mutex, worker_vars,
                 producer_vars, crashed, host_vars, hist_vars>>

\* what gf->whisper_thread.join() waits for
WorkerJoined == worker_pc = "exited"

\* gf->whisper_thread.join(); audio_resampler_destroy
DestroyJoin ==
  /\ ~crashed
  /\ destroy_pc = "join"
  /\ WorkerJoined
  /\ destroy_pc' = "lock_buf"
  /\ UNCHANGED <<fn_vars, gf_vars, in_vars, out_vars, mutex_vars, worker_vars,
                 producer_vars, crashed, host_vars, hist_vars>>

\* std::lock_guard lockbuf(whisper_buf_mutex)
DestroyLockBuf ==
  /\ ~crashed
  /\ destroy_pc = "lock_buf"
  /\ whisper_buf_mutex = Free
  /\ whisper_buf_mutex' = "destroy"
  /\ destroy_pc' = "lock_outbuf"
  /\ UNCHANGED <<fn_vars, gf_vars, in_vars, out_vars, whisper_outbuf_mutex,
                 whisper_ctx_mutex, worker_vars, producer_vars, crashed,
                 host_vars, hist_vars>>

\* std::lock_guard lockoutbuf(whisper_outbuf_mutex)
DestroyLockOutbuf ==
  /\ ~crashed
  /\ destroy_pc = "lock_outbuf"
  /\ whisper_outbuf_mutex = Free
  /\ whisper_outbuf_mutex' = "destroy"
  /\ destroy_pc' = "free_bufs"
  /\ UNCHANGED <<fn_vars, gf_vars, in_vars, out_vars, whisper_buf_mutex,
                 whisper_ctx_mutex, worker_vars, producer_vars, crashed,
                 host_vars, hist_vars>>

\* bfree the copy buffers, circlebuf_free every queue, unlock, bfree(gf)
DestroyFreeBufs ==
  /\ ~crashed
  /\ destroy_pc = "free_bufs"
  /\ copy_buffers' = [c \in Channels(channels) |-> << >>]
  /\ input_buffers' = [c \in Channels(channels) |-> << >>]
  /\ output_buffers' = [c \in Channels(channels) |-> << >>]
  /\ info_buffer' = << >>
  /\ info_out_buffer' = << >>
  /\ whisper_buf_mutex' = Free
  /\ whisper_outbuf_mutex' = Free
  /\ destroy_pc' = "done"
  /\ UNCHANGED <<fn_vars, channels, sample_rate, frames, overlap_frames, overlap_ms,
                 last_num_frames, whisper_context, engine, output_audio,
                 whisper_ctx_mutex, worker_vars, producer_vars, crashed,
                 host_vars, hist_vars>>

(* ---------------------------------------------------------------------- *)
(* run_whisper_inference: the classification of a successful inference     *)
(* ---------------------------------------------------------------------- *)
(* A std::string is the sequence of its characters.  A probability and the *)
(* threshold are taken in hundredths.  A float is a record: nan, or the     *)
(* quotient num / den.                                                      *)
\* the characters a transcript is made of
Chars == {"[", "b", "B", "l", "u", "U", "h", "m", "a", "e", ",", ".", "x"}
\* the longest transcript, the most tokens of a segment
MaxTextLen == 4
MaxTokens == 2
Texts == UNION {[1..n -> Chars] : n \in 0..MaxTextLen}
\* whisper_full_get_token_p
TokenPs == {10, 90}
TokenPSeqs == UNION {[1..n -> TokenPs] : n \in 0..MaxTokens}
\* the slider of cleanstream_properties runs from 0.0 to 1.0
FillerPThresholds == {0, DefaultFillerPThreshold}

\* ::tolower
tolower(c) == CASE c = "B" -> "b" [] c = "U" -> "u" [] OTHER -> c

\* std::transform(text_lower.begin(), text_lower.end(), ..., ::tolower)
TextLower(t) == [i \in 1..Len(t) |-> tolower(t[i])]

\* std::string::find(pat): the first position (from 0) where pat starts
RECURSIVE FindFrom(_, _, _)
FindFrom(s, pat, pos) ==
  IF pos + Len(pat) > Len(s) THEN npos
  ELSE IF SubSeq(s, pos + 1, pos + Len(pat)) = pat THEN pos
  ELSE FindFrom(s, pat, pos + 1)

find(s, pat) == FindFrom(s, pat, 0)

RECURSIVE SumP(_)
SumP(ps) == IF ps = << >> THEN 0 ELSE Head(ps) + SumP(Tail(ps))

\* sentence_p: the sum of the token probabilities, then sentence_p /=
\* (float)n_tokens; 0.0f / 0.0f is a NaN
SentenceP(ps) ==
  IF Len(ps) = 0 THEN [nan |-> TRUE, num |-> 0, den |-> 1]
  ELSE [nan |-> FALSE, num |-> SumP(ps), den |-> Len(ps)]

\* sentence_p > gf->filler_p_threshold: an ordered comparison with a NaN is
\* false
FloatGreater(p, thr) == ~p.nan /\ p.num > thr * p.den

BlankMarker == <<"[", "b", "l">>
DisfluencySubstrings ==
  {<<"u", "h", ",">>, <<"u", "m", ",">>, <<"u", "m", ".">>, <<"a", "h", ".">>,
   <<"a", "h", ",">>, <<"e", "h", ".">>, <<"e", "h", ",">>, <<"u", "h", ".">>}

\* a classification that searches the transcript as the engine gave it
SegmentIsFiller_NoLower(t, ps, thr) ==
  \/ find(t, BlankMarker) # npos /\ FloatGreater(SentenceP(ps), thr)
  \/ \E d \in DisfluencySubstrings : find(t, d) # npos

\* the condition under which run_whisper_inference returns true
SegmentIsFiller(t, ps, thr) ==
  LET text_lower == TextLower(t)
      sentence_p == SentenceP(ps)
  IN \/ find(text_lower, BlankMarker) # npos /\ FloatGreater(sentence_p, thr)
     \/ \E d \in DisfluencySubstrings : find(text_lower, d) # npos

\* whisper_full returned 0 with this segment 0
SegmentInit ==
  /\ CreateState
  /\ last_num_frames = 0 /\ ~silent /\ first_ts = 0
  /\ text \in Texts
  /\ token_p \in TokenPSeqs
  /\ filler_p_threshold \in FillerPThresholds
  /\ returned = "none"
  /\ NoWindow
  /\ NoUpdate

\* the else branch of whisper_full_result != 0, to the return
ClassifySegment ==
  /\ returned = "none"
  /\ returned' = IF SegmentIsFiller(text, token_p, filler_p_threshold)
                 THEN "true" ELSE "false"
  /\ UNCHANGED <<gf_vars, in_vars, out_vars, mutex_vars, worker_vars,
                 producer_vars, destroy_pc, crashed, host_vars, hist_vars,
                 text, token_p, filler_p_threshold, vad_vars, upd_vars>>

ClassifyNext == ClassifySegment

ClassifySpec == SegmentInit /\ [][ClassifyNext]_vars

(* ---------------------------------------------------------------------- *)
(* vad_simple and high_pass_filter                                          *)
(* ---------------------------------------------------------------------- *)
(* A float is a binary floating-point number of FloatBits significant bits *)
(* with gradual underflow, kept as the integer count of its smallest step;  *)
(* One steps make 1.0.  Every operation rounds its exact result to the      *)
(* nearest float, ties to even, as IEEE 754 arithmetic does.                *)
FloatBits == 4
One == 2 ^ (2 * FloatBits)
\* the longest window
MaxSamples == 3

Abs(x) == IF x < 0 THEN -x ELSE x

\* a / d for a >= 0, to the nearest integer, ties to even
RoundHalfEven(a, d) ==
  LET q == a \div d
      r == a % d
  IN IF 2 * r > d \/ (2 * r = d /\ q % 2 = 1) THEN q + 1 ELSE q

\* the step of the floats around a / d
RECURSIVE StepOf(_, _, _)
StepOf(a, d, g) == IF a < (2 ^ FloatBits) * g * d THEN g ELSE StepOf(a, d, 2 * g)

\* the float nearest to a / d
Fl(a, d) ==
  LET m == Abs(a)
      g == StepOf(m, d, 1)
      r == g * RoundHalfEven(m, d * g)
  IN IF a < 0 THEN -r ELSE r

IsFloat(x) == Fl(x, 1) = x

\* float +, -, * and the division by (float)n
FAdd(a, b) == Fl(a + b, 1)
FSub(a, b) == Fl(a - b, 1)
FMul(a, b) == Fl(a * b, One)
FDiv(a, n) == Fl(a, n)

\* alpha = dt / (rc + dt) with rc = 1 / (2 pi cutoff) and dt = 1 / sample_rate
Alpha(cutoff, sr) ==
  Fl(TwoPiMilli * cutoff * One, 1000 * sr + TwoPiMilli * cutoff)

\* the loop of high_pass_filter from index i (from 1 here): the filter
\* works in place, so pcm[i - 1] is what the step before wrote
RECURSIVE HighPassFrom(_, _, _, _)
HighPassFrom(pcm, y, i, alpha) ==
  IF i > Len(pcm) THEN pcm
  ELSE LET y2 == FMul(alpha, FSub(FAdd(y, pcm[i]), pcm[i - 1]))
       IN HighPassFrom([pcm EXCEPT ![i] = y2], y2, i + 1, alpha)

\* with no sample at all, y = pcmf32[0] reads outside the buffer, a value
\* that is never used
high_pass_filter(pcm, cutoff, sr) ==
  IF Len(pcm) = 0 THEN pcm
  ELSE HighPassFrom(pcm, pcm[1], 2, Alpha(cutoff, sr))

\* energy_all += fabsf(pcmf32[i])
RECURSIVE EnergySum(_, _, _)
EnergySum(pcm, i, e) ==
  IF i > Len(pcm) THEN e ELSE EnergySum(pcm, i + 1, FAdd(e, Abs(pcm[i])))

\* energy_all /= n_samples; 0.0f / 0 is a NaN
EnergyAll(pcm) ==
  IF Len(pcm) = 0 THEN [nan |-> TRUE, v |-> 0]
  ELSE [nan |-> FALSE, v |-> FDiv(EnergySum(pcm, 1, 0), Len(pcm))]

\* a comparison that takes the louder window for the silent one
EnergyBelow_Reversed(e, thold) == ~e.nan /\ e.v > thold

\* energy_all < vad_thold: an ordered comparison with a NaN is false
EnergyBelow(e, thold) == ~e.nan /\ e.v < thold

\* vad_simple: what it returns and what it leaves in the buffer
vad_simple(pcm, sr, thold, fthold) ==
  LET filtered == IF fthold > 0 THEN high_pass_filter(pcm, fthold, sr) ELSE pcm
  IN [ret |-> ~EnergyBelow(EnergyAll(filtered), thold), pcmf32 |-> filtered]

\* samples, scales (1.0, 1.25, 1.5 and 2.0 at FloatBits = 4) and thresholds,
\* in steps
Samples == {0, 16, -16, 64, -64, 192, -192, 224, -224}
Windows == UNION {[1..n -> Samples] : n \in 0..MaxSamples}
Scales == {One, One + One \div 4, One + One \div 2, 2 * One}
VadTholds == {0, 4, 16, 64, 128}
FreqTholds == {0, FREQ_THOLD}

\* the window scaled sample by sample, when every product is a float
Scaled(w, k) == [i \in 1..Len(w) |-> (k * w[i]) \div One]
ScalesExactly(w, k) ==
  \A i \in 1..Len(w) : (k * w[i]) % One = 0 /\ IsFloat((k * w[i]) \div One)

\* a window and its scaled copy, each about to be handed to vad_simple
WindowInit ==
  /\ CreateState
  /\ last_num_frames = 0 /\ ~silent /\ first_ts = 0
  /\ NoSegment
  /\ window \in Windows
  /\ scale \in Scales
  /\ ScalesExactly(window, scale)
  /\ pcmf32 = window
  /\ pcmf32_scaled = Scaled(window, scale)
  /\ vad_thold \in VadTholds
  /\ freq_thold \in FreqTholds
  /\ vad_ret = "none"
  /\ vad_ret_scaled = "none"
  /\ NoUpdate

VadSimpleWindow ==
  /\ vad_ret = "none"
  /\ LET r == vad_simple(pcmf32, WHISPER_SAMPLE_RATE, vad_thold, freq_thold)
     IN /\ vad_ret' = IF r.ret THEN "true" ELSE "false"
        /\ pcmf32' = r.pcmf32
  /\ UNCHANGED <<gf_vars, in_vars, out_vars, mutex_vars, worker_vars,
                 producer_vars, destroy_pc, crashed, host_vars, hist_vars,
                 cls_vars, window, scale, pcmf32_scaled, vad_thold,
                 freq_thold, vad_ret_scaled, upd_vars>>

VadSimpleScaled ==
  /\ vad_ret_scaled = "none"
  /\ LET r == vad_simple(pcmf32_scaled, WHISPER_SAMPLE_RATE, vad_thold,
                         freq_thold)
     IN /\ vad_ret_scaled' = IF r.ret THEN "true" ELSE "false"
        /\ pcmf32_scaled' = r.pcmf32
  /\ UNCHANGED <<gf_vars, in_vars, out_vars, mutex_vars, worker_vars,
                 producer_vars, destroy_pc, crashed, host_vars, hist_vars,
                 cls_vars, window, scale, pcmf32, vad_thold, freq_thold,
                 vad_ret, upd_vars>>

VadNext == VadSimpleWindow \/ VadSimpleScaled

VadSpec == WindowInit /\ [][VadNext]_vars

(* ---------------------------------------------------------------------- *)
(* cleanstream_update on the running filter                                *)
(* ---------------------------------------------------------------------- *)
\* The host calls cleanstream_update: channels, sample_rate, frames,
\* overlap_ms, overlap_frames and filler_p_threshold are assigned with no
\* mutex held; the settings and the audio output are those of
\* cleanstream_create.
UpdateCall ==
  /\ ~crashed
  /\ update_pc = "idle"
  /\ updates < MaxUpdates
  /\ destroy_pc = "idle"
  /\ updates' = updates + 1
  /\ \E ch \in ChannelCounts, sr \in SampleRates :
       /\ channels' = ch
       /\ sample_rate' = sr
       /\ frames' = FramesOf(sr)
       /\ overlap_ms' = OVERLAP_SIZE_MSEC
       /\ overlap_frames' = InitialOverlapFrames(sr)
  /\ filler_p_threshold' = DefaultFillerPThreshold
  /\ update_pc' = "lock_buf"
  /\ UNCHANGED <<last_num_frames, copy_buffers, whisper_context, engine,
                 in_vars, out_vars, mutex_vars, worker_vars, producer_vars,
                 destroy_pc, crashed, host_vars, hist_vars, text, token_p,
                 returned, vad_vars>>

\* std::lock_guard lockbuf(whisper_buf_mutex)
UpdateLockBuf ==
  /\ ~crashed
  /\ update_pc = "lock_buf"
  /\ whisper_buf_mutex = Free
  /\ whisper_buf_mutex' = "update"
  /\ update_pc' = "lock_outbuf"
  /\ UNCHANGED <<gf_vars, in_vars, out_vars, whisper_outbuf_mutex,
                 whisper_ctx_mutex, worker_vars, producer_vars, destroy_pc,
                 crashed, host_vars, hist_vars, cls_vars, vad_vars, updates>>

\* std::lock_guard lockoutbuf(whisper_outbuf_mutex)
UpdateLockOutbuf ==
  /\ ~crashed
  /\ update_pc = "lock_outbuf"
  /\ whisper_outbuf_mutex = Free
  /\ whisper_outbuf_mutex' = "update"
  /\ update_pc' = "free"
  /\ UNCHANGED <<gf_vars, in_vars, out_vars, whisper_buf_mutex,
                 whisper_ctx_mutex, worker_vars, producer_vars, destroy_pc,
                 crashed, host_vars, hist_vars, cls_vars, vad_vars, updates>>

\* bfree(gf->copy_buffers[0]), circlebuf_free of every input and output
\* buffer; info_buffer and info_out_buffer keep their entries
UpdateFree ==
  /\ ~crashed
  /\ update_pc = "free"
  /\ copy_buffers' = [c \in Channels(channels) |-> << >>]
  /\ input_buffers' = [c \in Channels(channels) |-> << >>]
  /\ output_buffers' = [c \in Channels(channels) |-> << >>]
  /\ update_pc' = "alloc"
  /\ UNCHANGED <<channels, sample_rate, frames, overlap_frames, overlap_ms,
                 last_num_frames, whisper_context, engine, info_buffer,
                 info_out_buffer, output_audio, mutex_vars, worker_vars,
                 producer_vars, destroy_pc, crashed, host_vars, hist_vars,
                 cls_vars, vad_vars, updates>>

\* gf->copy_buffers[0] = bmalloc(channels * frames * sizeof(float)), the
\* other channels point into it; both mutexes are released
UpdateAlloc ==
  /\ ~crashed
  /\ update_pc = "alloc"
  /\ copy_buffers' = [c \in Channels(channels) |-> [i \in 1..frames |-> Garbage]]
  /\ whisper_buf_mutex' = Free
  /\ whisper_outbuf_mutex' = Free
  /\ update_pc' = "idle"
  /\ UNCHANGED <<channels, sample_rate, frames, overlap_frames, overlap_ms,
                 last_num_frames, whisper_context, engine, in_vars, out_vars,
                 whisper_ctx_mutex, worker_vars, producer_vars, destroy_pc,
                 crashed, host_vars, hist_vars, cls_vars, vad_vars, updates>>

(* ---------------------------------------------------------------------- *)
(* Specification                                                           *)
(* ---------------------------------------------------------------------- *)
Producer ==
  \/ \E n \in PacketSizes : FilterAudioCall(n)
  \/ FilterAudioLockBuf
  \/ FilterAudioPush
  \/ FilterAudioLockOutbuf
  \/ FilterAudioPull

Worker ==
  \/ WhisperLoopLockCtx
  \/ WhisperLoopCheckCtx
  \/ WhisperLoopLockBuf
  \/ WhisperLoopPoll
  \/ WhisperLoopSleep
  \/ ProcessLockBuf
  \/ ProcessDrain
  \/ ProcessGate
  \/ InferenceLockCtx
  \/ InferenceCheckCtx
  \/ InferenceWhisperFull
  \/ InferenceAccessors
  \/ ProcessLockOutbuf
  \/ ProcessPublish
  \/ ProcessController

Destroy ==
  \/ DestroyCall
  \/ DestroyLockCtx
  \/ DestroyFreeCtx
  \/ DestroyJoin
  \/ DestroyLockBuf
  \/ DestroyLockOutbuf
  \/ DestroyFreeBufs

Next == Producer \/ Worker \/ Destroy

Spec == Init /\ [][Next]_vars

Update ==
  \/ UpdateCall
  \/ UpdateLockBuf
  \/ UpdateLockOutbuf
  \/ UpdateFree
  \/ UpdateAlloc

\* the filter after cleanstream_create with a source that is not silent and
\* last_num_frames zero
UpdateInit ==
  /\ Init
  /\ last_num_frames = 0
  /\ silent = FALSE
  /\ first_ts = 0

\* the running filter with cleanstream_update called by the host
UpdateNext == Producer \/ Worker \/ Update

UpdateSpec == UpdateInit /\ [][UpdateNext]_vars


(* ---------------------------------------------------------------------- *)
(* Claims                                                                  *)
(* ---------------------------------------------------------------------- *)
InInference == worker_pc \in {"infer_lock", "infer_check", "whisper_full",
                              "accessors"}

\* C1: input queue consistency.  Whenever whisper_buf_mutex is not held, the
\* frame counts of the entries of info_buffer add up, times sizeof(float), to
\* the byte size of input_buffers[c], for every channel c, the first window
\* included.
C1_InputQueueConsistency ==
  (whisper_buf_mutex = Free /\ ~crashed) =>
    \A c \in Channels(channels) :
      SumFrames(info_buffer) * SizeofFloat = FloatBufSize(input_buffers[c])

\* C2: overlap continuity.  In every window after the first, for every
\* channel, the first overlap_frames samples of the assembled window are the
\* samples at [last_num_frames - overlap_frames, last_num_frames) of the copy
\* buffer as the previous window left it.
C2_OverlapContinuity ==
  (worker_pc = "gate" /\ windows >= 2 /\ ~crashed) =>
    /\ win.overlap <= win.prev_last
    /\ win.prev_last <= frames
    /\ \A c \in Channels(channels) :
         SubSeq(copy_buffers[c], 1, win.overlap) =
           SubSeq(win.prev_copy[c], win.prev_last - win.overlap + 1,
                  win.prev_last)

\* C3: overlap bounds.  After every controller step overlap_ms is at least
\* 100 and at most 75% of the duration of the new frames of the window.
C3_OverlapBounds ==
  [][(worker_pc = "controller" /\ worker_pc' # "controller") =>
       /\ GeU(overlap_ms', OverlapFloorMs)
       /\ overlap_ms' >= 0
       /\ 4 * overlap_ms' <=
            3 * NewFramesMs(num_new_frames_from_infos, sample_rate)]_vars

\* C4: publish of the new portion.  For every window and channel the samples
\* appended to output_buffers[c] are exactly the samples the drain of that
\* window took from input_buffers[c], and exactly one output info with that
\* frame count is enqueued.
C4_PublishNewPortion ==
  [][(worker_pc = "publish" /\ worker_pc' = "controller") =>
       /\ \A c \in Channels(channels) :
            output_buffers'[c] = output_buffers[c] \o win.drained[c]
       /\ Len(info_out_buffer') = Len(info_out_buffer) + 1
       /\ info_out_buffer'[Len(info_out_buffer')].frames = Len(win.drained[1])
    ]_vars

\* C5: teardown.  cleanstream_destroy gets past the join only when
\* whisper_loop has exited, and from the call of cleanstream_destroy to its
\* return the process has not died and some thread can take a step (the
\* worker waiting at the head of a drain that the window bound MaxWindows
\* holds back is not counted as a deadlock).
C5_Teardown ==
  /\ destroy_pc \in {"lock_buf", "lock_outbuf", "free_bufs", "done"} =>
       worker_pc = "exited"
  /\ destroy_pc \notin {"idle", "done"} =>
       /\ ~crashed
       /\ \/ ENABLED Next
          \/ worker_pc = "drain_lock" /\ windows = MaxWindows

\* C6: no use of a released engine.  whisper_full and the segment and token
\* accessors run only while the worker holds whisper_ctx_mutex, on a context
\* that is neither null nor freed.
C6_NoUseOfReleasedEngine ==
  worker_pc \in {"whisper_full", "accessors"} =>
    /\ whisper_ctx_mutex = "worker"
    /\ whisper_context = LiveCtx
    /\ engine = "live"

\* C6 witness: the worker is inside whisper_full while cleanstream_destroy
\* waits for whisper_ctx_mutex.
C6_Witness == worker_pc = "whisper_full" /\ destroy_pc = "lock_ctx"

\* C7: the producer is never blocked by inference.  From the wait for
\* whisper_ctx_mutex to the end of run_whisper_inference the worker holds
\* neither whisper_buf_mutex nor whisper_outbuf_mutex, the producer never
\* holds whisper_ctx_mutex, and a producer call under way while whisper_full
\* runs can take its next step.
C7_ProducerNotBlockedByInference ==
  /\ InInference =>
       (whisper_buf_mutex # "worker" /\ whisper_outbuf_mutex # "worker")
  /\ whisper_ctx_mutex # "producer"
  /\ (worker_pc = "whisper_full" /\ producer_pc # "idle") => ENABLED Producer

\* C7 witness: the producer pushes under whisper_buf_mutex while the worker
\* is inside whisper_full.
C7_Witness == worker_pc = "whisper_full" /\ producer_pc = "push"

\* C8: FIFO order of the packet descriptors.  The entries of info_buffer are
\* in the order the producer pushed them (the producer's timestamps count up,
\* so: in ascending order of timestamp).
C8_InfoFifoOrder ==
  \A i, j \in DOMAIN info_buffer :
    i < j => info_buffer[i].timestamp < info_buffer[j].timestamp

\* C9: window timestamp.  The timestamp of the output info enqueued for a
\* window is the timestamp of the first descriptor popped from info_buffer
\* in the drain of that window, for every timestamp, 0 included.
C9_WindowTimestamp ==
  (worker_pc = "controller" /\ win.first_ts # -1) =>
    pub_infos[Len(pub_infos)].timestamp = win.first_ts

\* C10: end-to-end conservation.  When silent packets of exactly gf->frames
\* frames in total have been pushed and the worker has processed them and
\* gone back to its polling sleep, the output queue has received exactly
\* that many frames, the pushed samples unchanged, under the timestamp of
\* the first pushed packet.
C10_EndToEnd ==
  (/\ silent
   /\ pushed_frames = frames
   /\ windows >= 1
   /\ worker_pc = "sleep"
   /\ producer_pc = "idle"
   /\ ~crashed) =>
    /\ SumFrames(pub_infos) = frames
    /\ \A c \in Channels(channels) : pub_samples[c] = PacketData(c, 0, frames)
    /\ pub_infos[1].timestamp = first_ts

\* C11: inference gate.  For every window run_whisper_inference is entered
\* if and only if vad_simple returned speech and word_boundary_simple a
\* non-zero boundary, and only from the gate; a window that vad_simple
\* found silent goes on to the publish without inference, marked
\* skipped_inference.
C11_InferenceGate ==
  [][/\ (worker_pc = "gate" /\ worker_pc' # "gate") =>
          /\ (worker_pc' = "infer_lock") <=> (vad' /\ word_boundary' > 0)
          /\ ~vad' => (skipped_inference' /\ worker_pc' = "publish_lock")
          /\ vad' => ~skipped_inference'
     /\ (worker_pc # "infer_lock" /\ worker_pc' = "infer_lock") =>
          worker_pc = "gate"
    ]_vars

\* C11 witness: the gate has sent a window of speech with a boundary to
\* run_whisper_inference.
C11_Witness == worker_pc = "infer_lock" /\ vad /\ word_boundary > 0

\* C12: controller policy.  The controller step of a window that took
\* longer than its new frames last sets overlap_ms to the larger of
\* overlap_ms - 10 and 100; otherwise, after an inference that was not
\* skipped, to the smaller of overlap_ms + 10 and 75% of the msec of the new
\* frames; otherwise it leaves overlap_ms and overlap_frames as they are.
\* No other step changes overlap_ms.
C12_ControllerPolicy ==
  [][IF worker_pc = "controller" /\ worker_pc' # "controller"
       THEN LET new_ms == NewFramesMs(num_new_frames_from_infos, sample_rate)
            IN IF duration > new_ms
                 THEN overlap_ms' = Max(overlap_ms - 10, 100)
                 ELSE IF ~skipped_inference
                   THEN overlap_ms' = Min(overlap_ms + 10, (new_ms * 3) \div 4)
                   ELSE /\ overlap_ms' = overlap_ms
                        /\ overlap_frames' = overlap_frames
       ELSE overlap_ms' = overlap_ms
    ]_vars

\* The worker is in the inner loop of whisper_loop with a queue that no
\* window shortens: a full segment is queued, the info of every queued
\* packet reaches the need of a window by itself (so it is popped and pushed
\* back, and the drain takes no frame), the last window was such a window
\* already, and no push is under way.  The window that follows leaves all
\* of this as it is whenever the controller leaves the overlap as it is (a
\* window found silent and measured at 0 msec), so the inner loop can go on
\* for ever.
InnerLoopCannotEnd ==
  /\ ~crashed
  /\ worker_pc = "poll_lock"
  /\ producer_pc = "idle"
  /\ FloatBufSize(input_buffers[1]) >= segment_size
  /\ last_num_frames = overlap_frames
  /\ last_num_frames > 0
  /\ \A i \in DOMAIN info_buffer :
       info_buffer[i].frames >= NeededNewFrames(frames, overlap_frames)

\* C13: cancellation liveness.  Once whisper_context is null the worker gets
\* back to the test of whisper_context at the top of whisper_loop and exits,
\* whatever is queued: with whisper_context null it is never in an inner
\* loop that cannot end.
C13_CancellationLiveness == whisper_context = NullCtx => ~InnerLoopCannotEnd

\* C14: pass-through when the engine is unavailable.  A call of
\* cleanstream_filter_audio made while whisper_context is null returns the
\* caller's packet and leaves input_buffers, info_buffer, output_buffers and
\* info_out_buffer as they are.
C14_PassThrough ==
  [][(producer_pc = "idle" /\ calls' = calls + 1 /\ whisper_context = NullCtx)
       => /\ ret' = "audio"
          /\ producer_pc' = "idle"
          /\ input_buffers' = input_buffers
          /\ info_buffer' = info_buffer
          /\ output_buffers' = output_buffers
          /\ info_out_buffer' = info_out_buffer
    ]_vars

\* C14 witness: a call has returned the caller's packet on a null
\* whisper_context while packets are queued on both sides.
C14_Witness ==
  /\ ret = "audio"
  /\ whisper_context = NullCtx
  /\ info_buffer # << >>
  /\ info_out_buffer # << >>

\* C15: an inference fault is absorbing.  When whisper_full throws (the
\* engine is freed inside run_whisper_inference), whisper_context is null
\* when the step ends, the worker still holds whisper_ctx_mutex while it is
\* set, and the call returns false (filler_segment stays false); a null
\* whisper_context never becomes non-null again; and a call of
\* run_whisper_inference that finds it null returns false without going to
\* whisper_full or the accessors.
C15_FaultAbsorbing ==
  [][/\ (worker_pc = "whisper_full" /\ engine = "live" /\ engine' = "freed")
          => /\ whisper_ctx_mutex = "worker"
             /\ whisper_context' = NullCtx
             /\ worker_pc' = "publish_lock"
             /\ filler_segment' = FALSE
     /\ whisper_context = NullCtx => whisper_context' = NullCtx
     /\ (worker_pc = "infer_check" /\ worker_pc' # "infer_check"
           /\ whisper_context = NullCtx)
          => (worker_pc' = "publish_lock" /\ filler_segment' = FALSE)
     /\ worker_pc' \in {"whisper_full", "accessors"}
          => whisper_context' # NullCtx
    ]_vars

\* C15 witness: after a fault of whisper_full (no teardown), a later call
\* of run_whisper_inference is at its test of whisper_context.
C15_Witness ==
  /\ worker_pc = "infer_check"
  /\ whisper_context = NullCtx
  /\ engine = "freed"
  /\ destroy_pc = "idle"

\* C16: a successful inference returns true exactly when the lower-cased
\* transcript contains the blank marker "[bl" and the mean token
\* probability (0 for a segment without tokens) is greater than
\* filler_p_threshold, or the lower-cased transcript contains one of the
\* eight disfluency substrings; with neither the marker nor a disfluency
\* substring it returns false whatever the probabilities are.
C16_FillerClassification ==
  LET Lowered(t) == [i \in 1..Len(t) |->
                       IF t[i] = "B" THEN "b" ELSE IF t[i] = "U" THEN "u" ELSE t[i]]
      Occurs(pat, t) == \E i \in 1..Len(t) :
                          /\ i + Len(pat) - 1 <= Len(t)
                          /\ \A j \in 1..Len(pat) : t[i + j - 1] = pat[j]
      MeanAbove(ps, thr) == IF Len(ps) = 0 THEN 0 > thr
                            ELSE SumP(ps) > thr * Len(ps)
      HasMarker == Occurs(<<"[", "b", "l">>, Lowered(text))
      HasDisfluency ==
        \E w \in {<<"u", "h">>, <<"u", "m">>, <<"a", "h">>, <<"e", "h">>},
           e \in {",", "."} : Occurs(w \o <<e>>, Lowered(text))
  IN returned # "none" =>
       /\ returned = "true" <=>
            ((HasMarker /\ MeanAbove(token_p, filler_p_threshold)) \/ HasDisfluency)
       /\ (~HasMarker /\ ~HasDisfluency) => returned = "false"
\* an upper-case marker with a mean probability above the threshold, or an
\* upper-case disfluency in a segment without tokens, was classified
C16_Witness ==
  /\ returned = "true" /\ filler_p_threshold = 75
  /\ \/ text = <<"x", "[", "B", "l">> /\ token_p = <<90, 90>>
     \/ text = <<"x", "U", "m", ",">> /\ token_p = << >>

\* C17: for a window and a constant k >= 1, when vad_simple returns true
\* (speech) for the window it also returns true for the window scaled
\* sample by sample by k, at the same threshold, with the high-pass filter
\* on or off.
C17_VadMonotonic ==
  (/\ scale >= One
   /\ Len(pcmf32_scaled) = Len(window)
   /\ \A i \in 1..Len(window) : scale * window[i] = One * Scaled(window, scale)[i]
   /\ vad_ret = "true" /\ vad_ret_scaled # "none")
  => vad_ret_scaled = "true"
\* a filtered window that was speech just at the threshold, scaled by more
\* than 1, both calls made, with the filter having rounded at least once
C17_Witness ==
  /\ vad_ret = "true" /\ vad_ret_scaled = "true"
  /\ scale > One /\ freq_thold > 0 /\ vad_thold > 0 /\ Len(window) = MaxSamples
  /\ EnergyAll(pcmf32).v = vad_thold
  /\ pcmf32 # window

\* C18: in every drain, num_new_frames_from_infos is the sum of the frame
\* counts of a prefix of info_buffer as the drain found it (whole infos), it
\* is at most frames - overlap_frames, and the info that follows the prefix
\* exists and would take the sum to frames - overlap_frames or beyond.
C18_PacketGranularDrain ==
  [][(worker_pc = "drain" /\ worker_pc' = "gate") =>
       \E j \in 0..(Len(info_buffer) - 1) :
          /\ num_new_frames_from_infos' = SumFrames(SubSeq(info_buffer, 1, j))
          /\ num_new_frames_from_infos' <= NeededNewFrames(frames, overlap_frames)
          /\ num_new_frames_from_infos' + info_buffer[j + 1].frames
               >= NeededNewFrames(frames, overlap_frames)]_vars
\* a drain took two whole packets of 8 frames and put the third one, of 22
\* frames, back
C18_Witness ==
  /\ worker_pc = "gate" /\ num_new_frames_from_infos = 16
  /\ info_buffer # << >> /\ info_buffer[Len(info_buffer)].frames = 22
  /\ 16 < NeededNewFrames(frames, overlap_frames)
  /\ 16 + 22 >= NeededNewFrames(frames, overlap_frames)

\* C19: output stream continuity.  Per channel, the samples of all the
\* published output packets, taken together in the order of publication,
\* are the first samples of the pushed input stream, in order: none twice,
\* none left out, whatever the controller did to the overlap.
C19_OutputContinuity ==
  \A c \in Channels(channels) :
    pub_samples[c] = PacketData(c, 0, Len(pub_samples[c]))

\* C20: output timestamp monotonicity.  The producer's timestamps strictly
\* increase from push to push; every packet cleanstream_filter_audio
\* returns from the output queue has a timestamp greater than that of the
\* packet it returned from the output queue before (which output_audio
\* still holds), however far the worker lags behind.
C20_OutputTimestampsIncrease ==
  [][(producer_pc = "pull" /\ ret' = "output" /\ output_audio # NoAudio) =>
       output_audio'.timestamp > output_audio.timestamp]_vars

\* C21: window assembly stays in bounds.  At every drain, overlap_frames
\* plus the count of new frames is at most gf->frames (the capacity of a
\* copy buffer) and at most the frames queued in every input buffer, and
\* when the drain takes the window for a later one (last_num_frames > 0)
\* the overlap it copies, copy_buffers[c][last_num_frames - overlap_frames,
\* last_num_frames), lies inside the copy buffer.
C21_AssemblyInBounds ==
  (worker_pc = "drain" /\ ~crashed) =>
    LET num == PopInfos(info_buffer, 0, 0,
                        NeededNewFrames(frames, overlap_frames)).num
    IN /\ overlap_frames + num <= frames
       /\ \A c \in Channels(channels) :
            overlap_frames + num <= Len(input_buffers[c])
       /\ last_num_frames > 0 =>
            /\ overlap_frames <= last_num_frames
            /\ last_num_frames <= frames

\* C22: worker progress.  Every call of process_audio_from_buffer that
\* completes its drain removes at least one frame from each input buffer,
\* so the queue shrinks with every iteration of the inner loop of
\* whisper_loop and the loop ends once the producer stops pushing.
C22_WorkerProgress ==
  [][(worker_pc = "drain" /\ worker_pc' = "gate") =>
       \A c \in Channels(channels) :
         Len(input_buffers'[c]) < Len(input_buffers[c])]_vars

\* C24: output queue consistency.  Whenever whisper_outbuf_mutex is not
\* held, the frame counts of the entries of info_out_buffer add up, in
\* bytes, to the size of output_buffers[c] for every channel c; and a pull
\* that finds an entry returns a packet of exactly the frame count of the
\* oldest entry, with that many samples in every channel.
C24_OutputQueueConsistency ==
  /\ [](whisper_outbuf_mutex = Free =>
          \A c \in Channels(channels) :
            SumFrames(info_out_buffer) * SizeofFloat =
              Len(output_buffers[c]) * SizeofFloat)
  /\ [][(producer_pc = "pull" /\ ret' = "output") =>
          /\ output_audio'.frames = Head(info_out_buffer).frames
          /\ \A c \in Channels(channels) :
               Len(output_audio'.data[c]) = Head(info_out_buffer).frames]_vars

\* a pull has returned a packet with frames of an earlier window while the
\* output of a later window, also with frames, is still queued
C24_Witness ==
  /\ whisper_outbuf_mutex = Free
  /\ ret = "output"
  /\ output_audio.frames > 0
  /\ info_out_buffer # << >>
  /\ Head(info_out_buffer).frames > 0
  /\ destroy_pc = "idle"

\* C23: reconfiguration does not race the worker.  While the worker is
\* between the end of a drain and the end of the publish step,
\* cleanstream_update neither frees nor reallocates copy_buffers, and the
\* two steps of the worker that read the copy buffers (the resampling and
\* the publish) never find them freed.
C23_NoUpdateRace ==
  [][/\ worker_pc \in {"gate", "infer_lock", "infer_check", "whisper_full",
                       "accessors", "publish_lock", "publish"}
          => copy_buffers' = copy_buffers
     /\ (ProcessGate \/ ProcessPublish) => ~CopyFreed(copy_buffers)]_vars

====
